---- MODULE Spec2Model ----
(***************************************************************************)
(* Model of the embedding pipeline of text_to_embeddings.py:               *)
(*   - split_text_into_chunks       (specification SpecSplit)              *)
(*   - generate_embeddings_for_chunk (specification SpecEmbed)             *)
(*   - process_file / generate_embeddings_from_folder (SpecFolder)         *)
(* A Python str is a sequence of one-character strings.                    *)
(***************************************************************************)
EXTENDS Integers, Sequences, FiniteSets, TLC

\* ------------------------------------------------------------ bounds
MaxTextLen == 5
MaxChunkSize == 2
MaxOverlap == 2
MaxRetries == 3
MaxWorkers == 2
MaxFiles == 3
MaxRuns == 2
MaxUrls == 2

\* retries=3, the default used by every call of process_file
DefaultRetries == 3

NL == "\n"
SP == " "

\* Characters of the input texts: two word characters, a newline (white
\* space) and a full stop.
Chars == {"a", "b", NL, "."}

\* The separators tried: the default "\n\n" and ".".
Separators == {<<NL, NL>>, <<".">>}

Texts == UNION {[1..n -> Chars] : n \in 0..MaxTextLen}

\* chunk_size and overlap include zero and a negative value
ChunkSizes == -1..MaxChunkSize
Overlaps == -1..MaxOverlap

\* ------------------------------------------------------------ str helpers
Min(a, b) == IF a < b THEN a ELSE b

\* str.isspace for the characters that occur
IsSpace(c) == c \in {SP, NL}

StartsWith(s, p) == Len(s) >= Len(p) /\ SubSeq(s, 1, Len(p)) = p

RECURSIVE SplitRec(_, _, _)
SplitRec(s, sep, cur) ==
  IF s = <<>> THEN <<cur>>
  ELSE IF StartsWith(s, sep)
       THEN <<cur>> \o SplitRec(SubSeq(s, Len(sep) + 1, Len(s)), sep, <<>>)
       ELSE SplitRec(Tail(s), sep, Append(cur, Head(s)))

\* text.split(separator): the pieces between non-overlapping occurrences of
\* the separator, scanned from the left; "".split(sep) is [""].
PySplit(s, sep) == SplitRec(s, sep, <<>>)

RECURSIVE LStrip(_)
LStrip(s) == IF s # <<>> /\ IsSpace(Head(s)) THEN LStrip(Tail(s)) ELSE s

RECURSIVE RStrip(_)
RStrip(s) ==
  IF s # <<>> /\ IsSpace(s[Len(s)]) THEN RStrip(SubSeq(s, 1, Len(s) - 1)) ELSE s

\* str.strip()
Strip(s) == RStrip(LStrip(s))

RECURSIVE WordsRec(_, _)
WordsRec(s, cur) ==
  IF s = <<>> THEN (IF cur = <<>> THEN <<>> ELSE <<cur>>)
  ELSE IF IsSpace(Head(s))
       THEN (IF cur = <<>> THEN <<>> ELSE <<cur>>) \o WordsRec(Tail(s), <<>>)
       ELSE WordsRec(Tail(s), Append(cur, Head(s)))

\* str.split() with no argument: the maximal runs of non-space characters
Words(s) == WordsRec(s, <<>>)

RECURSIVE Join(_)
\* ' '.join(words)
Join(ws) ==
  IF ws = <<>> THEN <<>>
  ELSE IF Len(ws) = 1 THEN ws[1]
       ELSE ws[1] \o <<SP>> \o Join(Tail(ws))

\* ------------------------------------------------------------ file names
\* str.lower on the characters that occur in the file names
LowerChar(c) ==
  CASE c = "T" -> "t"
    [] c = "X" -> "x"
    [] c = "P" -> "p"
    [] c = "D" -> "d"
    [] c = "F" -> "f"
    [] OTHER -> c

Lower(s) == [i \in 1..Len(s) |-> LowerChar(s[i])]

EndsWith(s, suf) ==
  Len(s) >= Len(suf) /\ SubSeq(s, Len(s) - Len(suf) + 1, Len(s)) = suf

RECURSIVE LastDot(_, _)
\* the index of the last "." among the first n characters, 0 when none
LastDot(s, n) == IF n = 0 THEN 0 ELSE IF s[n] = "." THEN n ELSE LastDot(s, n - 1)

\* os.path.splitext on a bare file name: the extension starts at the last
\* dot, a leading dot does not start one
SplitExt(name) ==
  LET d == LastDot(name, Len(name)) IN
  IF d <= 1 THEN <<name, <<>>>>
  ELSE <<SubSeq(name, 1, d - 1), SubSeq(name, d, Len(name))>>

ExtTxt == <<".", "t", "x", "t">>
ExtPdf == <<".", "p", "d", "f">>

\* the entries the input directory may hold
DirEntries == {<<"a", ".", "t", "x", "t">>, <<"a", ".", "P", "D", "F">>,
               <<"b", ".", "t", "x", "t">>, <<"c", ".", "d", "o", "c">>}

\* line 286: the filter of the directory listing
EligibleTxtOnly(file) == EndsWith(Lower(file), ExtTxt)
Eligible(file) == EndsWith(Lower(file), ExtTxt) \/ EndsWith(Lower(file), ExtPdf)

SaveFormats == {"npy", "csv", "json", "xml"}
SupportedFormats == {"npy", "csv", "json"}

\* lines 201-213: the output path of a file, <<>> standing for None
EmbeddingFile(file_path, fmt) ==
  LET base_filename == SplitExt(file_path)[1] IN
  IF fmt \in SupportedFormats
  THEN <<"Embeddings/">> \o base_filename \o <<"_embeddings.", fmt>>
  ELSE <<>>

\* lines 215-216: the test that skips a file whose output exists
SkipExistingNever(embedding_file, files) == FALSE
SkipExisting(embedding_file, files) ==
  embedding_file # <<>> /\ embedding_file \in files

\* the URLs given to process_multiple_webpages: two plain ones and one of
\* them with a space before or after it
Urls == {<<"u">>, <<"v">>, <<SP, "u">>, <<"u", SP>>}

\* ------------------------------------------------------------ state
VARIABLES
  \* split_text_into_chunks
  text, separator, chunk_size, overlap,
  segments, segIdx, chunks, current_chunk, current_length, splitPc

VARIABLES
  \* generate_embeddings_for_chunk
  retries, attempt, outcomes, apiCalls, sleeps, embedResult, embedPc

VARIABLES
  \* generate_embeddings_from_folder and its process_file jobs
  dirExists, outDirExists, listing, save_as, max_workers,
  existing, writes,
  folderPc, consumed, total_embeddings, retval, jobs

VARIABLES
  \* url_to_text.process_multiple_webpages
  processed_file, processed_file_exists, save_dir_exists, urls,
  processed_urls, unique_urls, visits, urlPc, urlRun,
  read_ok, listed, failedBefore

splitVars == <<text, separator, chunk_size, overlap,
               segments, segIdx, chunks, current_chunk, current_length, splitPc>>

embedVars == <<retries, attempt, outcomes, apiCalls, sleeps, embedResult, embedPc>>

folderVars == <<dirExists, outDirExists, listing, save_as, max_workers,
                existing, writes,
                folderPc, consumed, total_embeddings, retval, jobs>>

urlVars == <<processed_file, processed_file_exists, save_dir_exists, urls,
             processed_urls, unique_urls, visits, urlPc, urlRun,
             read_ok, listed, failedBefore>>

vars == <<splitVars, embedVars, folderVars, urlVars>>

\* the functions that are not running in a specification stay idle
SplitIdle ==
  /\ text = <<>> /\ separator = <<".">> /\ chunk_size = 1 /\ overlap = 1
  /\ segments = <<>> /\ segIdx = 0 /\ chunks = <<>>
  /\ current_chunk = <<>> /\ current_length = 0 /\ splitPc = "idle"

EmbedIdle ==
  /\ retries = 0 /\ attempt = 0 /\ outcomes = <<>> /\ apiCalls = 0
  /\ sleeps = 0 /\ embedResult = "pending" /\ embedPc = "idle"

\* a directory entry that has no job
NoJob == [pc |-> "none", embedding_file |-> <<>>, chunks |-> <<>>, idx |-> 0,
          embeddings |-> <<>>, result |-> 0, existed |-> FALSE,
          extracted |-> FALSE, apiCalls |-> 0, saves |-> 0, caught |-> FALSE, raised |-> FALSE,
          starts |-> 0, checked |-> FALSE, blank |-> FALSE, answered |-> <<>>,
          sink |-> "none", run |-> 1]

\* what is known of one URL in the present run: how many times it was
\* fetched, what the page yielded, whether save_to_txt and
\* append_processed_url were called for it
NoVisit == [fetched |-> 0, yield |-> "none", saved |-> FALSE, appended |-> FALSE]

UrlIdle ==
  /\ processed_file = <<>> /\ processed_file_exists = FALSE
  /\ save_dir_exists = FALSE /\ urls = <<>> /\ processed_urls = {}
  /\ unique_urls = {} /\ visits = [u \in Urls |-> NoVisit]
  /\ urlPc = "idle" /\ urlRun = 0 /\ read_ok = TRUE
  /\ listed = {} /\ failedBefore = {}

FolderIdle ==
  /\ dirExists = FALSE /\ outDirExists = FALSE /\ listing = {}
  /\ save_as = "npy" /\ max_workers = 1 /\ existing = {} /\ writes = {}
  /\ folderPc = "idle" /\ consumed = {} /\ total_embeddings = 0
  /\ retval = <<>> /\ jobs = [f \in DirEntries |-> NoJob]

\* ------------------------------------------------------------ split_text_into_chunks
\* lines 73-74: the buffer is closed into the chunk list when it is truthy
CloseChunkDrop(cs, cur) == cs
CloseChunk(cs, cur) == IF cur # <<>> THEN Append(cs, Strip(cur)) ELSE cs

\* lines 90-91: the last buffer is emitted when it is truthy
FinalChunkDrop(cs, cur) == cs
FinalChunkAlways(cs, cur) == Append(cs, Strip(cur))
FinalChunk(cs, cur) == IF cur # <<>> THEN Append(cs, Strip(cur)) ELSE cs

\* lines 76-80: the words carried into the next buffer
OverlapWordsHead(cur, ov) ==
  LET ws == Words(cur) IN
  IF ov > 0 /\ Len(ws) >= ov THEN Join(SubSeq(ws, 1, ov)) ELSE Join(ws)
OverlapWords(cur, ov) ==
  LET ws == Words(cur) IN
  IF ov > 0 /\ Len(ws) >= ov
  THEN Join(SubSeq(ws, Len(ws) - ov + 1, Len(ws)))
  ELSE Join(ws)

\* line 72: the budget test
Overflows(len, segment, size) == len + Len(Words(segment)) > size

\* line 82: the running count restarts from the words of the new buffer
StartedLengthZero(started) == 0
StartedLength(started) == Len(Words(started))

InitSplit ==
  /\ text \in Texts
  /\ separator \in Separators
  /\ chunk_size \in ChunkSizes
  /\ overlap \in Overlaps
  /\ segments = <<>>
  /\ segIdx = 0
  /\ chunks = <<>>
  /\ current_chunk = <<>>
  /\ current_length = 0
  /\ splitPc = "call"
  /\ EmbedIdle
  /\ FolderIdle
  /\ UrlIdle

\* lines 62-65
SplitCall ==
  /\ splitPc = "call"
  /\ segments' = PySplit(text, separator)
  /\ segIdx' = 1
  /\ chunks' = <<>>
  /\ current_chunk' = <<>>
  /\ current_length' = 0
  /\ splitPc' = "loop"
  /\ UNCHANGED <<text, separator, chunk_size, overlap>>
  /\ UNCHANGED <<embedVars, folderVars, urlVars>>

\* lines 68-70: a segment that is empty after strip() is skipped
SplitSkip ==
  /\ splitPc = "loop"
  /\ segIdx <= Len(segments)
  /\ Strip(segments[segIdx]) = <<>>
  /\ segIdx' = segIdx + 1
  /\ UNCHANGED <<text, separator, chunk_size, overlap, segments, chunks,
                 current_chunk, current_length, splitPc>>
  /\ UNCHANGED <<embedVars, folderVars, urlVars>>

\* lines 72-82: the segment does not fit, the buffer is closed and a new one
\* is started from the carried words and the segment
SplitClose ==
  /\ splitPc = "loop"
  /\ segIdx <= Len(segments)
  /\ LET segment == Strip(segments[segIdx]) IN
       /\ segment # <<>>
       /\ Overflows(current_length, segment, chunk_size)
       /\ chunks' = CloseChunk(chunks, current_chunk)
       /\ current_chunk' = OverlapWords(current_chunk, overlap) \o <<SP>> \o segment
       /\ current_length' = StartedLength(current_chunk')
  /\ segIdx' = segIdx + 1
  /\ UNCHANGED <<text, separator, chunk_size, overlap, segments, splitPc>>
  /\ UNCHANGED <<embedVars, folderVars, urlVars>>

\* lines 83-88: the segment fits and is appended to the buffer
SplitAppend ==
  /\ splitPc = "loop"
  /\ segIdx <= Len(segments)
  /\ LET segment == Strip(segments[segIdx]) IN
       /\ segment # <<>>
       /\ ~Overflows(current_length, segment, chunk_size)
       /\ current_chunk' = IF current_chunk # <<>>
                           THEN current_chunk \o <<SP>> \o segment
                           ELSE segment
       /\ current_length' = current_length + Len(Words(segment))
  /\ segIdx' = segIdx + 1
  /\ UNCHANGED <<text, separator, chunk_size, overlap, segments, chunks, splitPc>>
  /\ UNCHANGED <<embedVars, folderVars, urlVars>>

\* lines 90-93
SplitReturn ==
  /\ splitPc = "loop"
  /\ segIdx > Len(segments)
  /\ chunks' = FinalChunk(chunks, current_chunk)
  /\ splitPc' = "done"
  /\ UNCHANGED <<text, separator, chunk_size, overlap, segments, segIdx,
                 current_chunk, current_length>>
  /\ UNCHANGED <<embedVars, folderVars, urlVars>>

NextSplit == SplitCall \/ SplitSkip \/ SplitClose \/ SplitAppend \/ SplitReturn

SpecSplit == InitSplit /\ [][NextSplit]_vars

\* ------------------------------------------------------------ generate_embeddings_for_chunk
\* What one call of client.embeddings.create can do: return a response with
\* data, return a response without data, or raise.
ApiOutcomes == {"ok", "no_data", "RateLimitError", "APIConnectionError",
                "APIError", "OpenAIError", "RuntimeError"}

\* lines 135-138: a response without data raises ValueError inside the try
ExceptionOf(o) == IF o = "no_data" THEN "ValueError" ELSE o

\* the exception classes and their base class (openai's hierarchy, imported
\* at line 11; RateLimitError is an APIError through APIStatusError)
Parent(c) ==
  CASE c = "RateLimitError" -> "APIError"
    [] c = "APIConnectionError" -> "APIError"
    [] c = "APIError" -> "OpenAIError"
    [] c = "OpenAIError" -> "Exception"
    [] c = "ValueError" -> "Exception"
    [] c = "RuntimeError" -> "Exception"
    [] c = "OSError" -> "Exception"
    [] OTHER -> "BaseException"

RECURSIVE IsSubclass(_, _)
IsSubclass(c, h) ==
  IF c = h THEN TRUE
  ELSE IF c = "BaseException" THEN FALSE
  ELSE IsSubclass(Parent(c), h)

\* lines 139-153: the except clauses of the retry loop, in order
EmbedHandlersNarrow == <<"RateLimitError", "APIConnectionError", "APIError", "OpenAIError">>
EmbedHandlers == <<"RateLimitError", "APIConnectionError", "APIError", "OpenAIError", "Exception">>

EmbedCatches(e) == \E i \in 1..Len(EmbedHandlers) : IsSubclass(e, EmbedHandlers[i])

\* line 129: for attempt in range(1, retries + 1)
MoreAttemptsShort(a, r) == a < r
MoreAttemptsAtLeastOnce(a, r) == a <= r \/ a = 1
MoreAttempts(a, r) == a <= r

\* lines 141, 144, 147, 150, 153: time.sleep(backoff_factor) in every except
\* clause, whatever the number of the attempt
SleepsUnlessLast(n, a, r) == IF a < r THEN n + 1 ELSE n
SleepsAfterFailure(n, a, r) == n + 1

InitEmbed ==
  /\ retries \in -1..MaxRetries
  /\ attempt = 0
  /\ outcomes = <<>>
  /\ apiCalls = 0
  /\ sleeps = 0
  /\ embedResult = "pending"
  /\ embedPc = "call"
  /\ SplitIdle
  /\ FolderIdle
  /\ UrlIdle

\* line 129: the loop is entered
EmbedCall ==
  /\ embedPc = "call"
  /\ attempt' = 1
  /\ embedPc' = "loop"
  /\ UNCHANGED <<retries, outcomes, apiCalls, sleeps, embedResult>>
  /\ UNCHANGED <<splitVars, folderVars, urlVars>>

\* lines 130-153: one attempt; a response with data is returned, anything
\* else is an exception that an except clause turns into a sleep of
\* backoff_factor seconds and the next iteration
EmbedAttempt ==
  /\ embedPc = "loop"
  /\ MoreAttempts(attempt, retries)
  /\ \E o \in ApiOutcomes :
       /\ outcomes' = Append(outcomes, o)
       /\ apiCalls' = apiCalls + 1
       /\ IF o = "ok"
          THEN /\ embedResult' = "vector"
               /\ embedPc' = "done"
               /\ UNCHANGED <<attempt, sleeps>>
          ELSE IF EmbedCatches(ExceptionOf(o))
               THEN /\ sleeps' = SleepsAfterFailure(sleeps, attempt, retries)
                    /\ attempt' = attempt + 1
                    /\ UNCHANGED <<embedResult, embedPc>>
               ELSE /\ embedPc' = "raised"
                    /\ UNCHANGED <<attempt, sleeps, embedResult>>
  /\ UNCHANGED retries
  /\ UNCHANGED <<splitVars, folderVars, urlVars>>

\* lines 154-155: the attempts are used up
EmbedGiveUp ==
  /\ embedPc = "loop"
  /\ ~MoreAttempts(attempt, retries)
  /\ embedResult' = "None"
  /\ embedPc' = "done"
  /\ UNCHANGED <<retries, attempt, outcomes, apiCalls, sleeps>>
  /\ UNCHANGED <<splitVars, folderVars, urlVars>>

NextEmbed == EmbedCall \/ EmbedAttempt \/ EmbedGiveUp

SpecEmbed == InitEmbed /\ [][NextEmbed]_vars

\* ------------------------------------------------------------ claims on generate_embeddings_for_chunk
EveryAttemptFailed == \A i \in 1..Len(outcomes) : outcomes[i] # "ok"

\* C10: when every attempt fails, whatever the kind of failure, the call
\* ends after exactly `retries` API calls (for a count retries >= 0),
\* returns None and does not raise.
C10_ExhaustedReturnsNone ==
  /\ embedPc # "raised"
  /\ (embedPc = "done" /\ EveryAttemptFailed) => embedResult = "None"
  /\ (embedPc = "done" /\ EveryAttemptFailed /\ retries >= 0) =>
       (apiCalls = retries /\ Len(outcomes) = retries /\ embedResult = "None")

\* a call that ended after several failures of different kinds
C10_Witness ==
  /\ embedPc = "done"
  /\ retries >= 3
  /\ EveryAttemptFailed
  /\ \E i, j \in 1..Len(outcomes) : outcomes[i] = "RateLimitError" /\ outcomes[j] = "no_data"
  /\ embedResult = "None"

PersistentRateLimit == \A i \in 1..Len(outcomes) : outcomes[i] = "RateLimitError"

\* C11 (as claimed): under a persistent rate limit the call sleeps
\* retries - 1 times, not after the final attempt.
C11_NoSleepAfterLastAttempt ==
  (embedPc = "done" /\ retries >= 1 /\ PersistentRateLimit) => sleeps = retries - 1

\* C11 (amended): under a persistent rate limit the call sleeps exactly
\* `retries` times (for a count retries >= 0), once after every attempt,
\* the final one included.
C11_SleepsAfterEveryAttempt ==
  (embedPc = "done" /\ retries >= 0 /\ PersistentRateLimit) =>
    (sleeps = retries /\ apiCalls = retries /\ embedResult = "None")

\* a call that gave up after three rate-limited attempts
C11_Witness ==
  /\ embedPc = "done"
  /\ retries = 3
  /\ PersistentRateLimit
  /\ Len(outcomes) = 3
  /\ sleeps = 3

\* C20: a response without the vector payload uses up one attempt and is
\* followed by the sleep and the next iteration, as a rate limit is; nothing
\* is raised, and a later response with data is returned as the result.
C20_MissingPayloadRetried ==
  /\ embedPc # "raised"
  /\ (outcomes # <<>> /\ outcomes[Len(outcomes)] \in {"no_data", "RateLimitError"}) =>
       /\ embedPc \in {"loop", "done"}
       /\ apiCalls = Len(outcomes)
       /\ sleeps = Len(outcomes)
       /\ attempt = Len(outcomes) + 1
       /\ embedPc = "done" => embedResult = "None"
  /\ (outcomes # <<>> /\ outcomes[Len(outcomes)] = "ok") =>
       (embedPc = "done" /\ embedResult = "vector" /\ sleeps = Len(outcomes) - 1)

\* a call that got a response without data, then a vector
C20_Witness ==
  /\ embedPc = "done"
  /\ embedResult = "vector"
  /\ Len(outcomes) >= 2
  /\ outcomes[1] = "no_data"
  /\ outcomes[Len(outcomes)] = "ok"
  /\ sleeps = Len(outcomes) - 1

\* C25: a call whose first response with data came on attempt k has made
\* exactly k API calls and k - 1 sleeps, k <= retries, and returns the
\* vector; a finished call makes no further step; with retries <= 0 no API
\* call is ever made and the call returns None.
C25_FirstSuccessEndsCall ==
  /\ [](\A k \in 1..Len(outcomes) :
          outcomes[k] = "ok" =>
            /\ k = Len(outcomes)
            /\ k <= retries
            /\ apiCalls = k
            /\ sleeps = k - 1
            /\ embedPc = "done"
            /\ embedResult = "vector")
  /\ [](retries <= 0 =>
          /\ apiCalls = 0
          /\ outcomes = <<>>
          /\ embedPc \in {"call", "loop", "done"}
          /\ embedPc = "done" => embedResult = "None")
  /\ [][embedPc # "done"]_vars

\* with three attempts allowed, the first was rate limited and the second
\* brought the vector: two calls, one sleep, the third attempt never made
C25_Witness ==
  /\ embedPc = "done"
  /\ retries = 3
  /\ outcomes = <<"RateLimitError", "ok">>
  /\ apiCalls = 2
  /\ sleeps = 1
  /\ embedResult = "vector"

\* a call with retries = -1 has returned None without any request
C25_WitnessNoAttempt ==
  /\ embedPc = "done"
  /\ retries < 0
  /\ apiCalls = 0
  /\ embedResult = "None"

\* ------------------------------------------------------------ claims on split_text_into_chunks
\* w occurs in ws as a contiguous run of words
IsRun(w, ws) ==
  \E k \in 0..(Len(ws) - Len(w)) : SubSeq(ws, k + 1, k + Len(w)) = w

\* the word lists of the segments that are non-empty after trimming, in order
RECURSIVE SegmentWords(_)
SegmentWords(segs) ==
  IF segs = <<>> THEN <<>>
  ELSE (IF Strip(Head(segs)) = <<>> THEN <<>> ELSE <<Words(Strip(Head(segs)))>>)
       \o SegmentWords(Tail(segs))

HasNonEmptySegment == SegmentWords(PySplit(text, separator)) # <<>>

C2_LeadingWordsAreOverlap ==
  (overlap > 0) =>
    \A k \in 2..Len(chunks) :
      LET prev == Words(chunks[k - 1])
          this == Words(chunks[k])
          m == Min(overlap, Len(prev))
      IN /\ Len(this) >= m
         /\ SubSeq(this, 1, m) = SubSeq(prev, Len(prev) - m + 1, Len(prev))

\* a finished run with three chunks, the overlap shorter than a previous chunk
C2_Witness ==
  /\ splitPc = "done"
  /\ overlap > 0
  /\ Len(chunks) >= 3
  /\ \E k \in 2..Len(chunks) :
       /\ Len(Words(chunks[k - 1])) > overlap
       /\ Words(chunks[k - 1])[1] # Words(chunks[k - 1])[Len(Words(chunks[k - 1]))]

\* C3 (as claimed): with overlap <= 0 the buffer started after a close holds
\* the new segment only, no word of the closed buffer.
C3_NoSeedWithoutOverlap ==
  [][(/\ splitPc = "loop"
      /\ segIdx <= Len(segments)
      /\ segIdx' = segIdx + 1
      /\ overlap <= 0
      /\ Strip(segments[segIdx]) # <<>>
      /\ Overflows(current_length, Strip(segments[segIdx]), chunk_size))
     => Words(current_chunk') = Words(Strip(segments[segIdx]))]_vars

\* C4 (as claimed): a non-empty text and chunk_size >= 1 give at least one chunk.
C4_NonEmptyTextGivesChunks ==
  (splitPc = "done" /\ text # <<>> /\ chunk_size >= 1) => chunks # <<>>

\* C4 (amended): a text with at least one segment that is non-empty after
\* trimming, and chunk_size >= 1, give at least one chunk.
C4_NonBlankTextGivesChunks ==
  (splitPc = "done" /\ HasNonEmptySegment /\ chunk_size >= 1) => chunks # <<>>

C4_Witness ==
  /\ splitPc = "done"
  /\ HasNonEmptySegment
  /\ chunk_size >= 1
  /\ Len(segments) >= 2
  /\ chunks # <<>>

\* the segments can be placed, in input order, each as a contiguous run of
\* words inside one chunk, the chunk index never decreasing
RECURSIVE PlacedInOrder(_, _)
PlacedInOrder(segws, cs) ==
  IF segws = <<>> THEN TRUE
  ELSE IF cs = <<>> THEN FALSE
  ELSE IF IsRun(Head(segws), Words(Head(cs)))
       THEN PlacedInOrder(Tail(segws), cs)
       ELSE PlacedInOrder(segws, Tail(cs))

\* C5: every segment that is non-empty after trimming lies whole, as a
\* contiguous run of words, inside a returned chunk, the chunks of successive
\* segments following input order; a segment longer than chunk_size included.
C5_SegmentsCoveredWhole ==
  (splitPc = "done") => PlacedInOrder(SegmentWords(segments), chunks)

\* a finished run over at least two segments, one of them longer than chunk_size
C5_Witness ==
  /\ splitPc = "done"
  /\ chunk_size >= 1
  /\ Len(SegmentWords(segments)) >= 2
  /\ Len(chunks) >= 2
  /\ \E i \in 1..Len(SegmentWords(segments)) :
       Len(SegmentWords(segments)[i]) > chunk_size

\* the last n words of ws (none when n <= 0)
LastWords(ws, n) ==
  IF n <= 0 THEN <<>> ELSE SubSeq(ws, Len(ws) - Min(n, Len(ws)) + 1, Len(ws))

\* C16 (as claimed): with chunk_size <= 0 there is exactly one chunk per
\* non-empty segment, and chunk k is the overlap seed (the last
\* min(overlap, length) words of chunk k - 1, nothing when overlap <= 0)
\* followed by segment k alone.
C16_OneSegmentPerChunk ==
  (splitPc = "done" /\ chunk_size <= 0) =>
    LET segws == SegmentWords(segments) IN
    /\ Len(chunks) = Len(segws)
    /\ \A k \in 1..Len(chunks) :
         Words(chunks[k]) =
           (IF k = 1 THEN <<>> ELSE LastWords(Words(chunks[k - 1]), overlap))
           \o segws[k]

SeededWith(ws, prev, segw) ==
  \E m \in 0..Len(prev) :
    /\ overlap > 0 => m = Min(overlap, Len(prev))
    /\ ws = SubSeq(prev, Len(prev) - m + 1, Len(prev)) \o segw

\* the index of the last segment placed so far (0 when there is none)
LastPlaced ==
  LET placed == {i \in 1..Min(segIdx - 1, Len(segments)) : Strip(segments[i]) # <<>>}
  IN IF placed = {} THEN 0 ELSE CHOOSE i \in placed : \A j \in placed : j <= i

\* C23: once a segment of more than chunk_size words has been placed, and
\* until the next segment is placed, the buffer is the seed carried from the
\* chunk closed before it followed by that segment alone; and in the
\* returned list each such segment has a chunk made of a seed from the
\* chunk before it and of that segment only.
C23_OversizedSegmentAlone ==
  /\ (splitPc = "loop" /\ LastPlaced > 0) =>
       LET segw == Words(Strip(segments[LastPlaced])) IN
       Len(segw) > chunk_size =>
         SeededWith(Words(current_chunk),
                    IF chunks = <<>> THEN <<>> ELSE Words(chunks[Len(chunks)]),
                    segw)
  /\ splitPc = "done" =>
       LET segws == SegmentWords(segments) IN
       \A j \in 1..Len(segws) :
         Len(segws[j]) > chunk_size =>
           \E k \in 1..Len(chunks) :
             SeededWith(Words(chunks[k]),
                        IF k = 1 THEN <<>> ELSE Words(chunks[k - 1]),
                        segws[j])

\* a finished call with chunk_size 1 and overlap 1 over two segments, the
\* first of two words: the first chunk is that segment alone, and the
\* second segment went to the next chunk behind one seed word
C23_Witness ==
  /\ splitPc = "done"
  /\ chunk_size = 1
  /\ overlap = 1
  /\ Len(SegmentWords(segments)) = 2
  /\ Len(SegmentWords(segments)[1]) = 2
  /\ Len(chunks) = 2
  /\ Words(chunks[1]) = SegmentWords(segments)[1]
  /\ Words(chunks[2]) = LastWords(Words(chunks[1]), 1) \o SegmentWords(segments)[2]

\* ------------------------------------------------------------ process_file
RECURSIVE SplitLoop(_, _, _, _, _, _)
\* lines 67-91 as a function of the segments left and the loop state
SplitLoop(segs, cs, cur, len, size, ov) ==
  IF segs = <<>> THEN FinalChunk(cs, cur)
  ELSE LET segment == Strip(Head(segs)) IN
       IF segment = <<>> THEN SplitLoop(Tail(segs), cs, cur, len, size, ov)
       ELSE IF Overflows(len, segment, size)
            THEN LET started == OverlapWords(cur, ov) \o <<SP>> \o segment IN
                 SplitLoop(Tail(segs), CloseChunk(cs, cur), started,
                           StartedLength(started), size, ov)
            ELSE SplitLoop(Tail(segs), cs,
                           IF cur # <<>> THEN cur \o <<SP>> \o segment ELSE segment,
                           len + Len(Words(segment)), size, ov)

\* split_text_into_chunks(text, separator, chunk_size, overlap)
SplitTextIntoChunks(t, sep, size, ov) ==
  SplitLoop(PySplit(t, sep), <<>>, <<>>, 0, size, ov)

RECURSIVE EmbedLoop(_, _, _, _)
\* lines 129-155 as a function of the API's answers: the result and the
\* number of API calls made
EmbedLoop(a, r, answers, calls) ==
  IF ~MoreAttempts(a, r) THEN [result |-> "None", calls |-> calls]
  ELSE IF answers[a] = "ok" THEN [result |-> "vector", calls |-> calls + 1]
  ELSE IF EmbedCatches(ExceptionOf(answers[a]))
       THEN EmbedLoop(a + 1, r, answers, calls + 1)
       ELSE [result |-> "raised", calls |-> calls + 1]

\* generate_embeddings_for_chunk(chunk) as process_file calls it (line 240)
GenerateEmbeddingsForChunk(answers) == EmbedLoop(1, DefaultRetries, answers, 0)

\* the API's answers to the attempts for one chunk: a vector at once, or a
\* failure every time
ChunkAnswers == {[i \in 1..DefaultRetries |-> "ok"],
                 [i \in 1..DefaultRetries |-> "RateLimitError"]}

\* what the input files may hold
FileTexts == {<<>>, <<NL>>, <<"a", ".", "b">>}

\* what a write of save_embeddings can do: complete, fail before the file
\* is created, or fail leaving a partial file (lines 166-182)
SaveOutcomes == {"written", "failed", "partial"}

\* lines 257-259: except Exception around the body of process_file
ProcessFileCatchesNothing(e) == FALSE
ProcessFileCatches(e) == IsSubclass(e, "Exception")

\* the pool runs at most max_workers jobs at a time (line 295)
Running == {f \in DirEntries : jobs[f].pc \in {"extract", "embed"}}

\* line 295: a queued job starts only when one of the max_workers threads
\* of the pool is free
WorkerFreeAlways(running, workers) == TRUE
WorkerFree(running, workers) == running < workers

\* lines 239-252: the write comes after the for loop over the chunks has
\* ended (i is the 1-based index of the next chunk)
LoopFinishedEarly(i, cs) == i > 1
LoopFinished(i, cs) == i > Len(cs)

\* a job ends: by return (the count) or through the except clause (0), or,
\* were the exception not caught, with the exception in its future
JobReturns(j, count) == [j EXCEPT !.pc = "done", !.result = count]
JobFails(j, e) ==
  IF ProcessFileCatches(e)
  THEN [j EXCEPT !.pc = "done", !.result = 0, !.caught = TRUE]
  ELSE [j EXCEPT !.pc = "done", !.raised = TRUE]

\* line 216: "embedding_file and os.path.exists(...)" asks the file system
\* only when there is an output path
ExistenceChecked(embedding_file) == embedding_file # <<>>

\* lines 221-232: the extractor is chosen by the lower-cased extension
FileKindTxtDefault(file_extension) ==
  IF file_extension = ExtPdf THEN "pdf" ELSE "txt"
FileKind(file_extension) ==
  IF file_extension = ExtTxt THEN "txt"
  ELSE IF file_extension = ExtPdf THEN "pdf"
  ELSE "unsupported"

\* lines 241-245: a truthy embedding is appended, a failure adds nothing
\* (an embedding is written here as the index of its chunk)
AccumulatePlaceholder(embeddings, i, embedding) ==
  Append(embeddings, IF embedding = "vector" THEN i ELSE 0)
Accumulate(embeddings, i, embedding) ==
  IF embedding = "vector" THEN Append(embeddings, i) ELSE embeddings

\* lines 181-182: except Exception around the write of save_embeddings
SaveCatchesNothing(e) == FALSE
SaveCatches(e) == IsSubclass(e, "Exception")

\* lines 200-218: a worker takes the job; the output path is computed and
\* the file is skipped when its output exists
PFStart(f) ==
  /\ folderPc \in {"collect", "direct"}
  /\ jobs[f].pc = "queued"
  /\ WorkerFree(Cardinality(Running), max_workers)
  /\ LET embedding_file == EmbeddingFile(f, save_as)
         j == [jobs[f] EXCEPT !.embedding_file = embedding_file,
                              !.starts = @ + 1,
                              !.checked = ExistenceChecked(embedding_file),
                              !.existed = (save_as \in SupportedFormats
                                           /\ EmbeddingFile(f, save_as) \in existing)]
     IN jobs' = [jobs EXCEPT ![f] =
                   IF SkipExisting(embedding_file, existing)
                   THEN JobReturns(j, 0)
                   ELSE [j EXCEPT !.pc = "extract"]]
  /\ UNCHANGED <<dirExists, outDirExists, listing, save_as, max_workers,
                 existing, writes, folderPc, consumed, total_embeddings, retval>>
  /\ UNCHANGED <<splitVars, embedVars, urlVars>>

\* lines 220-237: the text is extracted by file type and split into chunks
PFExtract(f) ==
  /\ jobs[f].pc = "extract"
  /\ \E readable \in BOOLEAN, content \in FileTexts :
       LET file_extension == Lower(SplitExt(f)[2])
           j == [jobs[f] EXCEPT !.extracted = TRUE]
           split(t, jt) == [jt EXCEPT !.pc = "embed",
                                 !.chunks = SplitTextIntoChunks(t, separator, chunk_size, overlap),
                                 !.idx = 1,
                                 !.embeddings = <<>>]
       IN jobs' = [jobs EXCEPT ![f] =
            IF FileKind(file_extension) = "txt"
            THEN (IF readable
                  THEN split(content, [j EXCEPT !.blank = (Strip(content) = <<>>)])
                  ELSE JobFails(j, "OSError"))
            ELSE IF FileKind(file_extension) = "pdf"
            THEN LET t == IF readable THEN content ELSE <<>>
                     jb == [j EXCEPT !.blank = (Strip(t) = <<>>)] IN
                 IF Strip(t) = <<>> THEN JobReturns(jb, 0) ELSE split(t, jb)
            ELSE JobReturns([j EXCEPT !.extracted = FALSE], 0)]
  /\ UNCHANGED <<dirExists, outDirExists, listing, save_as, max_workers,
                 existing, writes, folderPc, consumed, total_embeddings, retval>>
  /\ UNCHANGED <<splitVars, embedVars, urlVars>>

\* lines 239-245: the embedding of the next chunk is requested; a vector is
\* appended to the list, a failure is skipped
PFEmbed(f) ==
  /\ jobs[f].pc = "embed"
  /\ jobs[f].idx <= Len(jobs[f].chunks)
  /\ \E answers \in ChunkAnswers :
       LET r == GenerateEmbeddingsForChunk(answers)
           j == [jobs[f] EXCEPT !.apiCalls = @ + r.calls,
                                !.answered = Append(@, r.result)]
       IN jobs' = [jobs EXCEPT ![f] =
            IF r.result = "raised" THEN JobFails(j, "Exception")
            ELSE [j EXCEPT !.idx = @ + 1,
                           !.embeddings = Accumulate(@, jobs[f].idx, r.result)]]
  /\ UNCHANGED <<dirExists, outDirExists, listing, save_as, max_workers,
                 existing, writes, folderPc, consumed, total_embeddings, retval>>
  /\ UNCHANGED <<splitVars, embedVars, urlVars>>

\* lines 247-255 with save_embeddings (lines 166-182): after the last chunk
\* the list is written when there is an output path, and its length returned
PFSave(f) ==
  /\ jobs[f].pc = "embed"
  /\ LoopFinished(jobs[f].idx, jobs[f].chunks)
  /\ LET j == jobs[f] IN
     IF j.embedding_file # <<>>
     THEN \E outcome \in SaveOutcomes :
            /\ existing' = IF outcome = "failed" THEN existing
                           ELSE existing \cup {j.embedding_file}
            /\ writes' = IF outcome = "failed" THEN writes
                         ELSE writes \cup {[path |-> j.embedding_file, by |-> f,
                                            n |-> Len(j.embeddings),
                                            of |-> Len(j.chunks),
                                            run |-> j.run,
                                            complete |-> (outcome = "written")]}
            /\ LET js == [j EXCEPT !.saves = @ + 1, !.sink = outcome] IN
               jobs' = [jobs EXCEPT ![f] =
                          IF outcome = "written" \/ SaveCatches("OSError")
                          THEN JobReturns(js, Len(j.embeddings))
                          ELSE JobFails(js, "OSError")]
     ELSE /\ UNCHANGED <<existing, writes>>
          /\ jobs' = [jobs EXCEPT ![f] = JobReturns(j, Len(j.embeddings))]
  /\ UNCHANGED <<dirExists, outDirExists, listing, save_as, max_workers,
                 folderPc, consumed, total_embeddings, retval>>
  /\ UNCHANGED <<splitVars, embedVars, urlVars>>

\* process_file called on its own, on one path of any extension (lines
\* 184-259): the arguments and the output files left by earlier calls
InitFile ==
  /\ dirExists = TRUE
  /\ outDirExists = TRUE
  /\ \E f \in DirEntries :
       /\ listing = {f}
       /\ jobs = [g \in DirEntries |->
                    IF g = f THEN [NoJob EXCEPT !.pc = "queued"] ELSE NoJob]
       /\ save_as \in SaveFormats
       /\ existing \in SUBSET {EmbeddingFile(f, s) : s \in SupportedFormats}
  /\ max_workers = 1
  /\ writes = {}
  /\ folderPc = "direct"
  /\ consumed = {}
  /\ total_embeddings = 0
  /\ retval = <<>>
  /\ separator = <<".">>
  /\ chunk_size \in 1..MaxChunkSize
  /\ overlap \in 0..MaxOverlap
  /\ text = <<>> /\ segments = <<>> /\ segIdx = 0 /\ chunks = <<>>
  /\ current_chunk = <<>> /\ current_length = 0 /\ splitPc = "idle"
  /\ EmbedIdle
  /\ UrlIdle

\* process_file is called again on the same path with the same arguments,
\* the output directory being as the earlier calls left it
PFRerun(f) ==
  /\ folderPc = "direct"
  /\ jobs[f].pc = "done"
  /\ jobs[f].run < MaxRuns
  /\ jobs' = [jobs EXCEPT ![f] = [NoJob EXCEPT !.pc = "queued",
                                               !.run = jobs[f].run + 1]]
  /\ UNCHANGED <<dirExists, outDirExists, listing, save_as, max_workers,
                 existing, writes, folderPc, consumed, total_embeddings, retval>>
  /\ UNCHANGED <<splitVars, embedVars, urlVars>>

NextFile ==
  \/ \E f \in DirEntries : PFRerun(f)
  \/ \E f \in DirEntries : PFStart(f)
  \/ \E f \in DirEntries : PFExtract(f)
  \/ \E f \in DirEntries : PFEmbed(f)
  \/ \E f \in DirEntries : PFSave(f)

SpecFile == InitFile /\ [][NextFile]_vars

\* ------------------------------------------------------------ generate_embeddings_from_folder
\* line 306: total_embeddings += embeddings_count
AddCountOverwrite(total, count) == count
AddCount(total, count) == total + count

Submitted == {f \in DirEntries : jobs[f].pc # "none"}

InitFolder ==
  /\ dirExists \in BOOLEAN
  /\ outDirExists \in BOOLEAN
  /\ listing \in SUBSET DirEntries
  /\ dirExists = FALSE => listing = {}
  /\ save_as \in SaveFormats
  /\ max_workers \in 1..MaxWorkers
  /\ Cardinality(listing) <= MaxFiles
  \* the output files left by earlier runs
  /\ existing \in SUBSET {EmbeddingFile(f, save_as) : f \in {g \in listing : Eligible(g)}}
  /\ <<>> \notin existing
  /\ outDirExists = FALSE => existing = {}
  /\ writes = {}
  /\ folderPc = "call"
  /\ consumed = {}
  /\ total_embeddings = 0
  /\ retval = <<>>
  /\ jobs = [f \in DirEntries |-> NoJob]
  \* the arguments separator, chunk_size and overlap of the run
  /\ text = <<>> /\ separator = <<".">> /\ chunk_size = 1 /\ overlap = 1
  /\ segments = <<>> /\ segIdx = 0 /\ chunks = <<>>
  /\ current_chunk = <<>> /\ current_length = 0 /\ splitPc = "idle"
  /\ EmbedIdle
  /\ UrlIdle

\* lines 278-283: the test of the input directory comes before the
\* creation of the output directory
FolderRaiseAfterMakedirs ==
  /\ folderPc = "call"
  /\ ~dirExists
  /\ outDirExists' = TRUE
  /\ folderPc' = "raised"
  /\ UNCHANGED <<dirExists, listing, save_as, max_workers,
                 existing, writes, consumed, total_embeddings, retval, jobs>>
  /\ UNCHANGED <<splitVars, embedVars, urlVars>>

\* lines 278-279: the input directory does not exist
FolderRaise ==
  /\ folderPc = "call"
  /\ ~dirExists
  /\ folderPc' = "raised"
  /\ UNCHANGED <<dirExists, outDirExists, listing, save_as, max_workers,
                 existing, writes, consumed, total_embeddings, retval, jobs>>
  /\ UNCHANGED <<splitVars, embedVars, urlVars>>

\* lines 281-290: the output directory is created, no eligible file is found
FolderNoFiles ==
  /\ folderPc = "call"
  /\ dirExists
  /\ {f \in listing : Eligible(f)} = {}
  /\ outDirExists' = TRUE
  /\ folderPc' = "done"
  /\ retval' = <<>>
  /\ UNCHANGED <<dirExists, listing, save_as, max_workers,
                 existing, writes, consumed, total_embeddings, jobs>>
  /\ UNCHANGED <<splitVars, embedVars, urlVars>>

\* lines 281-300: the output directory is created and every eligible file
\* is submitted to the pool
FolderSubmit ==
  /\ folderPc = "call"
  /\ dirExists
  /\ LET text_files == {f \in listing : Eligible(f)} IN
       /\ text_files # {}
       /\ jobs' = [f \in DirEntries |->
                     IF f \in text_files THEN [NoJob EXCEPT !.pc = "queued"] ELSE NoJob]
  /\ outDirExists' = TRUE
  /\ total_embeddings' = 0
  /\ folderPc' = "collect"
  /\ UNCHANGED <<dirExists, listing, save_as, max_workers,
                 existing, writes, consumed, retval>>
  /\ UNCHANGED <<splitVars, embedVars, urlVars>>

\* lines 302-308: the result of a completed job is added to the total; an
\* exception in the future is logged and adds nothing
FolderCollect(f) ==
  /\ folderPc = "collect"
  /\ jobs[f].pc = "done"
  /\ f \notin consumed
  /\ consumed' = consumed \cup {f}
  /\ total_embeddings' = IF jobs[f].raised THEN total_embeddings
                         ELSE AddCount(total_embeddings, jobs[f].result)
  /\ UNCHANGED <<dirExists, outDirExists, listing, save_as, max_workers,
                 existing, writes, folderPc, retval, jobs>>
  /\ UNCHANGED <<splitVars, embedVars, urlVars>>

\* lines 302, 295, 310: as_completed has yielded every future, the pool is
\* shut down, the summary is printed; the function returns None
FolderReturn ==
  /\ folderPc = "collect"
  /\ consumed = Submitted
  /\ folderPc' = "done"
  /\ retval' = <<>>
  /\ UNCHANGED <<dirExists, outDirExists, listing, save_as, max_workers,
                 existing, writes, consumed, total_embeddings, jobs>>
  /\ UNCHANGED <<splitVars, embedVars, urlVars>>

NextFolder ==
  \/ FolderRaise
  \/ FolderNoFiles
  \/ FolderSubmit
  \/ \E f \in DirEntries : PFStart(f)
  \/ \E f \in DirEntries : PFExtract(f)
  \/ \E f \in DirEntries : PFEmbed(f)
  \/ \E f \in DirEntries : PFSave(f)
  \/ \E f \in DirEntries : FolderCollect(f)
  \/ FolderReturn

SpecFolder == InitFolder /\ [][NextFolder]_vars

\* ------------------------------------------------------------ url_to_text.process_multiple_webpages
\* the elements of a list
ToSet(l) == {l[i] : i \in 1..Len(l)}

\* the lists of URLs a run can be given, duplicates included
UrlLists == UNION {[1..n -> Urls] : n \in 0..MaxUrls}

\* "for line in f": the pieces of the file between newlines (the newline
\* that ends a line is stripped with the rest, lines 225-226)
FileLines(content) == ToSet(PySplit(content, <<NL>>))

\* read_processed_urls (lines 215-230): the stripped non-empty lines of the
\* file; the empty set when the file is missing or cannot be read
ReadProcessedUrls(exists, readable, content) ==
  IF ~exists \/ ~readable THEN {}
  ELSE {Strip(line) : line \in FileLines(content)} \ {<<>>}

\* append_processed_url (lines 237-239): f.write(url + '\n') in mode 'a'
AppendProcessedUrl(content, url) == content \o url \o <<NL>>

\* what ParsedWebpage(url) can give: a failed fetch, a page without title
\* and text, or a page with a title or text (lines 32-57, 281)
Yields == {"failed", "empty", "content"}

\* the state before the first run: the file of processed URLs is missing,
\* empty, or holds the line an earlier run wrote for one URL
InitUrls ==
  /\ processed_file_exists \in BOOLEAN
  /\ processed_file \in {<<>>} \cup {AppendProcessedUrl(<<>>, u) : u \in Urls}
  /\ processed_file_exists = FALSE => processed_file = <<>>
  /\ save_dir_exists \in BOOLEAN
  /\ urls = <<>>
  /\ processed_urls = {}
  /\ unique_urls = {}
  /\ visits = [u \in Urls |-> NoVisit]
  /\ urlPc = "start"
  /\ urlRun = 0
  /\ read_ok = TRUE
  /\ listed = {}
  /\ failedBefore = {}
  /\ SplitIdle
  /\ EmbedIdle
  /\ FolderIdle

\* lines 250-273: a run starts; the processed URLs are read, the output
\* directory is created when missing (the run ends if that fails) and the
\* input list is reduced to its distinct URLs
UrlCall ==
  /\ urlPc \in {"start", "done"}
  /\ urlRun < MaxRuns
  /\ \E input \in UrlLists, readable \in BOOLEAN, mkdirOk \in BOOLEAN :
       /\ urls' = input
       /\ processed_urls' = ReadProcessedUrls(processed_file_exists, readable,
                                              processed_file)
       /\ IF save_dir_exists \/ mkdirOk
          THEN /\ save_dir_exists' = TRUE
               /\ unique_urls' = ToSet(input)
               /\ urlPc' = "loop"
          ELSE /\ save_dir_exists' = FALSE
               /\ unique_urls' = {}
               /\ urlPc' = "done"
       /\ read_ok' = (readable \/ ~processed_file_exists)
  /\ urlRun' = urlRun + 1
  /\ listed' = IF processed_file_exists
               THEN Urls \cap FileLines(processed_file) ELSE {}
  /\ failedBefore' = {u \in Urls : visits[u].yield \in {"failed", "empty"}}
  /\ visits' = [u \in Urls |-> NoVisit]
  /\ UNCHANGED <<processed_file, processed_file_exists>>
  /\ UNCHANGED <<splitVars, embedVars, folderVars>>

\* lines 275-277: a URL of the processed set is skipped
UrlSkip(url) ==
  /\ urlPc = "loop"
  /\ url \in unique_urls
  /\ url \in processed_urls
  /\ unique_urls' = unique_urls \ {url}
  /\ UNCHANGED <<processed_file, processed_file_exists, save_dir_exists, urls,
                 processed_urls, visits, urlPc, urlRun, read_ok, listed, failedBefore>>
  /\ UNCHANGED <<splitVars, embedVars, folderVars>>

\* lines 279-299: the page is fetched and parsed; without title and text the
\* URL is left; otherwise the text is saved and the URL appended to the file
\* (a failed append is logged and leaves the file as it was)
UrlProcess(url) ==
  /\ urlPc = "loop"
  /\ url \in unique_urls
  /\ url \notin processed_urls
  /\ unique_urls' = unique_urls \ {url}
  /\ \E yield \in Yields, appendOk \in BOOLEAN :
       LET got == yield = "content" IN
       /\ visits' = [visits EXCEPT ![url] =
                       [fetched |-> @.fetched + 1, yield |-> yield,
                        saved |-> got, appended |-> got]]
       /\ processed_file' = IF got /\ appendOk
                            THEN AppendProcessedUrl(processed_file, url)
                            ELSE processed_file
       /\ processed_file_exists' = (processed_file_exists \/ (got /\ appendOk))
  /\ UNCHANGED <<save_dir_exists, urls, processed_urls, urlPc, urlRun,
                 read_ok, listed, failedBefore>>
  /\ UNCHANGED <<splitVars, embedVars, folderVars>>

\* lines 301-304: every URL was visited, the run ends
UrlReturn ==
  /\ urlPc = "loop"
  /\ unique_urls = {}
  /\ urlPc' = "done"
  /\ UNCHANGED <<processed_file, processed_file_exists, save_dir_exists, urls,
                 processed_urls, unique_urls, visits, urlRun, read_ok, listed, failedBefore>>
  /\ UNCHANGED <<splitVars, embedVars, folderVars>>

NextUrls ==
  \/ UrlCall
  \/ \E url \in Urls : UrlSkip(url)
  \/ \E url \in Urls : UrlProcess(url)
  \/ UrlReturn

SpecUrls == InitUrls /\ [][NextUrls]_vars

\* ------------------------------------------------------------ claims on process_multiple_webpages
\* C26 (as claimed): a URL that is a line of the processed-URLs file at the
\* start of a run is not fetched in it; no URL is fetched twice in a run; a
\* URL is appended only after its page yielded a title or text and was
\* saved; a URL whose page failed or was empty is not appended, and is
\* fetched in the next run that is given it, unless the file lists it by
\* then. Stated for runs that could read the file.
C26_ProcessedUrlsRespected ==
  read_ok =>
  /\ \A u \in listed : visits[u].fetched = 0
  /\ \A u \in Urls :
       /\ visits[u].fetched <= 1
       /\ visits[u].appended => (visits[u].saved /\ visits[u].yield = "content")
       /\ visits[u].yield \in {"failed", "empty"} => ~visits[u].appended
  /\ urlPc = "done" =>
       \A u \in (failedBefore \cap ToSet(urls)) \ listed : visits[u].fetched = 1

\* ------------------------------------------------------------ claims on process_file and the folder run
RECURSIVE SumResults(_)
\* the sum of the values process_file returned for the files of S
SumResults(S) ==
  IF S = {} THEN 0
  ELSE LET f == CHOOSE x \in S : TRUE IN jobs[f].result + SumResults(S \ {f})

\* C6: a job that finds its output file <stem>_embeddings.<ext> in place
\* returns 0 and has extracted nothing, requested no embedding and written
\* nothing.
C6_ExistingOutputSkipped ==
  \A f \in DirEntries :
    jobs[f].existed =>
      /\ jobs[f].pc = "done"
      /\ jobs[f].result = 0
      /\ ~jobs[f].raised
      /\ ~jobs[f].extracted
      /\ jobs[f].apiCalls = 0
      /\ jobs[f].saves = 0
      /\ \A w \in writes : w.by # f

\* a finished run in which one file was skipped for its existing output
\* while another file was embedded and written
C6_Witness ==
  /\ folderPc = "done"
  /\ \E f, g \in DirEntries :
       /\ jobs[f].existed
       /\ EmbeddingFile(f, save_as) \notin {w.path : w \in writes}
       /\ jobs[g].result > 0
       /\ jobs[g].saves = 1

\* C7 (as claimed): the folder run over eligible files returns the sum of
\* their per-file counts.
C7_ReturnsSum ==
  (folderPc = "done" /\ Submitted # {}) => retval = <<SumResults(Submitted)>>

\* C7 (amended): the folder run returns None; the total it accumulates and
\* prints is the sum of the per-file counts of the files collected so far,
\* at the end of all eligible files, a job that went through the except
\* clause counting 0.
C7_TotalIsSum ==
  /\ \A f \in DirEntries : jobs[f].caught => jobs[f].result = 0
  /\ folderPc = "collect" => total_embeddings = SumResults(consumed)
  /\ (folderPc = "done" /\ Submitted # {}) =>
       /\ retval = <<>>
       /\ consumed = {f \in listing : Eligible(f)}
       /\ total_embeddings = SumResults(Submitted)

\* a finished run over three files: one failed with an exception, the two
\* others returned positive counts
C7_Witness ==
  /\ folderPc = "done"
  /\ \E f, g, h \in DirEntries :
       /\ g # h
       /\ jobs[f].caught
       /\ jobs[g].result > 0
       /\ jobs[h].result > 0
       /\ total_embeddings = jobs[g].result + jobs[h].result

\* C8 (as claimed): no two jobs of a run write the same output path.
C8_DistinctOutputPaths ==
  \A w1, w2 \in writes : w1.path = w2.path => w1.by = w2.by

\* C9: no exception leaves process_file, and the folder run ends only when
\* every submitted job has ended, whatever happened to the other jobs.
C9_FailureDoesNotAbort ==
  /\ \A f \in DirEntries : ~jobs[f].raised
  /\ folderPc = "done" =>
       \A f \in {g \in listing : Eligible(g)} : jobs[f].pc = "done"

\* a finished run in which one job failed with an exception and another job
\* went on to write its embeddings
C9_Witness ==
  /\ folderPc = "done"
  /\ \E f, g \in DirEntries :
       /\ jobs[f].caught
       /\ jobs[g].saves = 1
       /\ jobs[g].result = 2
       /\ \E w \in writes : w.by = g /\ w.complete

\* the job of f has returned without a request and without touching the
\* output directory
SkippedClean(f) ==
  /\ jobs[f].pc = "done"
  /\ jobs[f].result = 0
  /\ ~jobs[f].raised
  /\ jobs[f].apiCalls = 0
  /\ jobs[f].saves = 0
  /\ \A w \in writes : w.by # f

\* C12 (as claimed): a file whose extracted text is empty or blank, .txt
\* like .pdf, is skipped: process_file returns 0, requests no embedding and
\* writes no output file.
C12_BlankTextSkipped ==
  \A f \in DirEntries :
    (jobs[f].pc = "done" /\ jobs[f].blank) => SkippedClean(f)

\* C13: process_file on a path whose lower-cased extension is neither .txt
\* nor .pdf returns 0, requests no embedding and writes nothing.
C13_UnsupportedExtensionSkipped ==
  \A f \in DirEntries :
    (jobs[f].pc = "done" /\ Lower(SplitExt(f)[2]) \notin {ExtTxt, ExtPdf}) =>
      /\ SkippedClean(f)
      /\ ~jobs[f].extracted
      /\ writes = {}

\* process_file has returned for c.doc, whose output did not exist: the
\* call got past the existence test and ended in the unsupported branch
C13_Witness ==
  \E f \in DirEntries :
    /\ Lower(SplitExt(f)[2]) \notin {ExtTxt, ExtPdf}
    /\ jobs[f].pc = "done"
    /\ jobs[f].starts = 1
    /\ jobs[f].checked
    /\ ~jobs[f].existed
    /\ jobs[f].result = 0

\* the name ends in .txt or .pdf, whatever the case of its letters
EndsInTxtOrPdf(f) ==
  \/ EndsWith(Lower(f), ExtTxt)
  \/ EndsWith(Lower(f), ExtPdf)

\* C14: the folder run calls process_file at most once per directory entry,
\* never for an entry whose name does not end in .txt or .pdf (in any
\* case), and by its end exactly once for every entry whose name does.
C14_DispatchedExactlyOnce ==
  /\ \A f \in DirEntries :
       /\ jobs[f].starts <= 1
       /\ (f \notin listing \/ ~EndsInTxtOrPdf(f)) =>
            (jobs[f].pc = "none" /\ jobs[f].starts = 0)
  /\ folderPc \in {"collect", "done"} =>
       Submitted = {f \in listing : EndsInTxtOrPdf(f)}
  /\ folderPc = "done" =>
       \A f \in listing : EndsInTxtOrPdf(f) => jobs[f].starts = 1

\* a finished run over a directory holding a.txt, a.PDF and c.doc: the two
\* first were processed once each, c.doc never
C14_Witness ==
  /\ folderPc = "done"
  /\ Cardinality(listing) = 3
  /\ \E f, g, h \in listing :
       /\ f # g
       /\ EndsWith(f, ExtTxt) /\ jobs[f].starts = 1
       /\ ~EndsWith(g, ExtPdf) /\ EndsWith(Lower(g), ExtPdf) /\ jobs[g].starts = 1
       /\ ~EndsInTxtOrPdf(h) /\ jobs[h].starts = 0

\* C15: when input_dir does not exist nothing is ever dispatched or
\* requested, and the only step of the run is the one that raises, which
\* leaves the output directory, the jobs and the files as they were.
C15_MissingInputDirFatal ==
  /\ [](~dirExists =>
         /\ folderPc \in {"call", "raised"}
         /\ Submitted = {}
         /\ \A f \in DirEntries : jobs[f].starts = 0 /\ jobs[f].apiCalls = 0)
  /\ [][~dirExists =>
         /\ folderPc = "call"
         /\ folderPc' = "raised"
         /\ outDirExists' = outDirExists
         /\ jobs' = jobs
         /\ existing' = existing
         /\ writes' = writes]_vars

\* the run has raised for the missing input directory and the output
\* directory, missing too, was not created
C15_Witness ==
  /\ folderPc = "raised"
  /\ ~dirExists
  /\ ~outDirExists
  /\ Submitted = {}

RECURSIVE SuccessfulChunks(_, _)
\* the indices i + 1, i + 2, ... of the chunks whose request gave a vector,
\* in chunk order
SuccessfulChunks(answered, i) ==
  IF answered = <<>> THEN <<>>
  ELSE (IF Head(answered) = "vector" THEN <<i + 1>> ELSE <<>>)
       \o SuccessfulChunks(Tail(answered), i + 1)

\* C18: at every point of the embedding loop and after it, the accumulated
\* list holds exactly the embeddings of the chunks requested so far whose
\* request succeeded, in chunk order, with nothing in the place of a failed
\* chunk.
C18_OnlySuccessesInOrder ==
  \A f \in DirEntries :
    jobs[f].idx >= 1 =>
      /\ Len(jobs[f].answered) = jobs[f].idx - 1
      /\ jobs[f].embeddings = SuccessfulChunks(jobs[f].answered, 0)

\* a file of two chunks whose first request failed and second succeeded:
\* the list has one entry, and its first entry is the embedding of chunk 2
C18_Witness ==
  \E f \in DirEntries :
    /\ jobs[f].pc = "done"
    /\ Len(jobs[f].chunks) = 2
    /\ jobs[f].answered = <<"None", "vector">>
    /\ jobs[f].embeddings = <<2>>
    /\ jobs[f].result = 1

\* C19: a call of process_file that reached the embedding stage returns the
\* number of successful embeddings, through a normal return; with an
\* unsupported save format it has neither tested the output's existence nor
\* written, and a failed write changes neither the value nor the way it is
\* returned.
C19_ReturnsInMemoryCount ==
  \A f \in DirEntries :
    (jobs[f].pc = "done" /\ jobs[f].idx >= 1) =>
      /\ jobs[f].result = Len(SuccessfulChunks(jobs[f].answered, 0))
      /\ ~jobs[f].caught
      /\ ~jobs[f].raised
      /\ save_as \notin SupportedFormats =>
           /\ ~jobs[f].checked
           /\ jobs[f].saves = 0
           /\ jobs[f].sink = "none"
           /\ writes = {}
      /\ save_as \in SupportedFormats =>
           /\ jobs[f].checked
           /\ jobs[f].saves = 1
           /\ jobs[f].sink \in SaveOutcomes

\* a call whose write failed before the file was created, yet returned the
\* two embeddings it held
C19_Witness ==
  \E f \in DirEntries :
    /\ jobs[f].pc = "done"
    /\ jobs[f].sink = "failed"
    /\ jobs[f].result = 2
    /\ writes = {}

\* a call with the unsupported format xml that returned the count of the
\* embeddings it held and wrote nothing
C19_WitnessUnsupportedFormat ==
  \E f \in DirEntries :
    /\ jobs[f].pc = "done"
    /\ save_as \notin SupportedFormats
    /\ jobs[f].result = 2
    /\ jobs[f].saves = 0

\* the next step of the job a worker is executing
JobStep(f) == PFExtract(f) \/ PFEmbed(f) \/ PFSave(f)

\* C21: at every moment of a folder run at most max_workers jobs are being
\* executed, and every job being executed can take its next step whatever
\* the other workers are doing.
C21_BoundedPoolNoBlocking ==
  folderPc = "collect" =>
    /\ Cardinality(Running) <= max_workers
    /\ \A f \in Running : ENABLED JobStep(f)

\* two workers are both inside the embedding loop of their files, one
\* before its first request and the other after a request that failed,
\* while a third file waits for a free worker
C21_Witness ==
  /\ folderPc = "collect"
  /\ max_workers = 2
  /\ Cardinality(Running) = 2
  /\ \E f, g, h \in DirEntries :
       /\ jobs[f].pc = "embed" /\ jobs[f].answered = <<>>
       /\ jobs[g].pc = "embed" /\ jobs[g].answered = <<"None">>
       /\ jobs[h].pc = "queued"

\* the writes the job of f made to the sink in its present call
WritesBy(f) == {w \in writes : w.by = f /\ w.run = jobs[f].run}

\* C22: a job calls the sink at most once, and only when the request of
\* every chunk of its file has been answered; while the job is still in
\* its embedding loop nothing of it has been written.
C22_WrittenOnceAtEnd ==
  \A f \in DirEntries :
    /\ jobs[f].saves <= 1
    /\ Cardinality(WritesBy(f)) <= jobs[f].saves
    /\ jobs[f].saves = 1 =>
         /\ jobs[f].pc = "done"
         /\ Len(jobs[f].answered) = Len(jobs[f].chunks)
    /\ jobs[f].pc # "done" => (jobs[f].saves = 0 /\ jobs[f].sink = "none")

\* a file of two chunks, both answered (one of them after failing every
\* attempt), whose list was then written in one complete write
C22_Witness ==
  \E f \in DirEntries :
    /\ jobs[f].pc = "done"
    /\ Len(jobs[f].chunks) = 2
    /\ jobs[f].answered = <<"vector", "None">>
    /\ jobs[f].apiCalls = 1 + DefaultRetries
    /\ jobs[f].saves = 1
    /\ WritesBy(f) = {[path |-> jobs[f].embedding_file, by |-> f, n |-> 1,
                       of |-> 2, run |-> jobs[f].run, complete |-> TRUE]}

\* C24: once a call of process_file has written its list completely, every
\* later call on the same path, from its start on, ends at the existence
\* test: it returns 0 without extracting, requesting or writing anything,
\* however many chunks the earlier call had failed to embed.
C24_RerunSkipsWrittenFile ==
  \A f \in DirEntries :
    \A w \in writes :
      (w.by = f /\ w.complete /\ w.run < jobs[f].run /\ jobs[f].pc # "queued") =>
        /\ w.path \in existing
        /\ jobs[f].pc = "done"
        /\ jobs[f].existed
        /\ jobs[f].result = 0
        /\ ~jobs[f].extracted
        /\ jobs[f].apiCalls = 0
        /\ jobs[f].saves = 0

\* the first call failed on both chunks of the file and wrote the empty
\* list; the second call has returned 0 at the existence test
C24_Witness ==
  \E f \in DirEntries :
    /\ jobs[f].run = 2
    /\ jobs[f].pc = "done"
    /\ jobs[f].existed
    /\ jobs[f].result = 0
    /\ jobs[f].apiCalls = 0
    /\ \E w \in writes :
         w.by = f /\ w.run = 1 /\ w.complete /\ w.of = 2 /\ w.n = 0

====
